---------------------------- MODULE Spec2Model ----------------------------
(***************************************************************************)
(* Model of caffe/src/caffe/layers/bbtxt_data_layer.cpp (BBTXTDataLayer):  *)
(* the BBTXT annotation parser, the shuffler, the crop-and-rescale         *)
(* transform and the batch loop with its global image cursor.              *)
(*                                                                         *)
(* Numbers.  The blobs hold Dtype (float) values.  They are modelled as    *)
(* exact rationals <<num, den>> in lowest terms with den > 0, so a float   *)
(* rounding error is not modelled; every float -> int conversion of the    *)
(* source is modelled as the truncation toward zero it is.  A numeric      *)
(* field of the annotation file is a decimal with a fixed number of        *)
(* fractional steps: the integer n stands for the text of n / CoordDenom.  *)
(*                                                                         *)
(* Indices are 0-based as in the source: a blob is a function on           *)
(* 0..MAX_NUM_BBS_PER_IMAGE-1 of rows, a row a function on 0..4            *)
(* [label, xmin, ymin, xmax, ymax], a split line a function on 0..n-1.     *)
(* _images and the file are sequences (1-based); _i_global is 0-based.     *)
(***************************************************************************)
EXTENDS Integers, Sequences, FiniteSets

VARIABLES
    file,               \* the annotation file: a sequence of split lines
    cfg,                \* layer parameters: width, height, reference_size, batch_size, shuffle
    pc,                 \* position of the layer's control flow
    images,             \* _images: sequence of [first: filename, second: label blob]
    i_global,           \* _i_global: index of the next image to read
    writes,             \* history: every row write _loadBBTXTFile did, in order
    parsed,             \* history: _images as _loadBBTXTFile left it
    b,                  \* load_batch: the loop index b
    transformed_label,  \* the label block of batch slot b that transformed_label_ points to
    tr,                 \* history: the locals of the last _transformImage call
    stats,              \* history: counts of calls, reads, wraps, reshuffles; last read index
    tpc,                \* producers: each producer's position inside load_batch
    tb,                 \* producers: each producer's loop index b
    epochReads          \* producers: the cursor values read since the cursor was last reset

vars == <<file, cfg, pc, images, i_global, writes, parsed, b, transformed_label,
          tr, stats, tpc, tb, epochReads>>

-----------------------------------------------------------------------------
(* Program constant and model bounds *)

MAX_NUM_BBS_PER_IMAGE == 20

\* A numeric field of the file has CoordDenom steps per unit (2: halves).
CoordDenom == 2
\* Files of the parser specification have at most MaxRuns filename groups.
MaxRuns == 3
\* The sampler's draws are the top of its range and the DrawSpan lowest values.
DrawSpan == 1
\* The producers of the concurrent specification.
NProducers == 2
\* load_batch is called at most MaxCalls times.
MaxCalls == 2
\* batch_size is at most MaxBatch.
MaxBatch == 2

-----------------------------------------------------------------------------
(* Exact rationals standing for Dtype values *)

Abs(n) == IF n < 0 THEN -n ELSE n

RECURSIVE GCD(_, _)
GCD(m, n) == IF n = 0 THEN m ELSE GCD(n, m % n)

\* <<n, d>> with d > 0, in lowest terms
Norm(n, d) ==
    LET g == GCD(Abs(n), d)
    IN  <<n \div g, d \div g>>

Frac(n)    == <<n, 1>>
FAdd(x, y) == Norm(x[1] * y[2] + y[1] * x[2], x[2] * y[2])
FSub(x, y) == Norm(x[1] * y[2] - y[1] * x[2], x[2] * y[2])
FMul(x, y) == Norm(x[1] * y[1], x[2] * y[2])
FLe(x, y)  == x[1] * y[2] <= y[1] * x[2]
FMax(x, y) == IF FLe(x, y) THEN y ELSE x

\* Conversion of a Dtype or double to int: truncation toward zero.
Trunc(x) == IF x[1] >= 0 THEN x[1] \div x[2] ELSE -((-x[1]) \div x[2])

\* std::stof on a numeric field: the value of the decimal text n / CoordDenom.
stof(n) == Norm(n, CoordDenom)

MinusOne == Frac(-1)
Zero     == Frac(0)

-----------------------------------------------------------------------------
(* Blobs *)

Row(l, x0, y0, x1, y1) ==
    [k \in 0..4 |-> CASE k = 0 -> l [] k = 1 -> x0 [] k = 2 -> y0
                      [] k = 3 -> x1 [] OTHER -> y1]

\* A Blob(MAX_NUM_BBS_PER_IMAGE, 5, 1, 1) as allocated: Caffe zero-fills it.
NewBlob == [r \in 0..(MAX_NUM_BBS_PER_IMAGE - 1) |-> Row(Zero, Zero, Zero, Zero, Zero)]

\* The number of bounding boxes of a label block: the index of the first row
\* whose label is -1, or the number of rows when there is none.
numBBs(labels) ==
    LET n == Cardinality(DOMAIN labels)
        S == {r \in 0..(n - 1) : labels[r][0] = MinusOne}
    IN  IF S = {} THEN n ELSE CHOOSE r \in S : \A q \in S : r <= q

-----------------------------------------------------------------------------
(* _loadBBTXTFile *)

\* A line split on " ": data[0..6] = filename label confidence xmin ymin xmax ymax
Line(name, label, conf, xmin, ymin, xmax, ymax) ==
    [k \in 0..6 |-> CASE k = 0 -> name [] k = 1 -> label [] k = 2 -> conf
                      [] k = 3 -> xmin [] k = 4 -> ymin [] k = 5 -> xmax
                      [] OTHER -> ymax]

\* The image files boost::filesystem::exists finds.
OnDisk == {"a", "b", "c"}

\* The locals of _loadBBTXTFile before the first line is read.
ParseStart ==
    [images |-> <<>>, i |-> 0, current_filename |-> "", writes |-> <<>>, ok |-> TRUE]

\* bb_position[0] = -1 on the last image, at row i.
Finalize(st) ==
    LET n == Len(st.images)
    IN  [st EXCEPT !.images[n].second[st.i][0] = MinusOne,
                   !.writes = Append(@, <<n, st.i, "sentinel">>)]

\* Lines 191-210: a line of a new image ends the last annotation and opens an entry.
NewImage(st, data) ==
    LET fin == IF Len(st.images) > 0 /\ st.i < MAX_NUM_BBS_PER_IMAGE
               THEN Finalize(st) ELSE st
    IN  IF data[0] \notin OnDisk
        THEN [fin EXCEPT !.ok = FALSE]
        ELSE [fin EXCEPT !.images = Append(@, [first |-> data[0], second |-> NewBlob]),
                         !.i = 0,
                         !.current_filename = data[0]]

\* Lines 213-227 with a varied guard: one row too many is written.
WriteBBOffByOne(st, data) ==
    IF st.i <= MAX_NUM_BBS_PER_IMAGE
    THEN LET n == Len(st.images)
             k == IF st.i < MAX_NUM_BBS_PER_IMAGE THEN st.i ELSE MAX_NUM_BBS_PER_IMAGE - 1
         IN  [st EXCEPT !.images[n].second[k] =
                            Row(stof(data[1]), stof(data[3]), stof(data[4]),
                                stof(data[5]), stof(data[6])),
                        !.writes = Append(@, <<n, st.i, "box">>),
                        !.i = @ + 1]
    ELSE st

\* Lines 213-227 with the fields shifted by one: the confidence is taken as xmin.
WriteBBShifted(st, data) ==
    IF st.i < MAX_NUM_BBS_PER_IMAGE
    THEN LET n == Len(st.images)
         IN  [st EXCEPT !.images[n].second[st.i] =
                            Row(stof(data[1]), stof(data[2]), stof(data[3]),
                                stof(data[4]), stof(data[5])),
                        !.writes = Append(@, <<n, st.i, "box">>),
                        !.i = @ + 1]
    ELSE st

\* Lines 213-227: the box goes to row i while there is room, else it is skipped.
WriteBB(st, data) ==
    IF st.i < MAX_NUM_BBS_PER_IMAGE
    THEN LET n == Len(st.images)
         IN  [st EXCEPT !.images[n].second[st.i] =
                            Row(stof(data[1]), stof(data[3]), stof(data[4]),
                                stof(data[5]), stof(data[6])),
                        !.writes = Append(@, <<n, st.i, "box">>),
                        !.i = @ + 1]
    ELSE st

\* One pass of the while loop, lines 185-228.  A failed CHECK ends the process.
LoopBody(st, data) ==
    IF Cardinality(DOMAIN data) # 7
    THEN [st EXCEPT !.ok = FALSE]
    ELSE LET s1 == IF st.current_filename # data[0] THEN NewImage(st, data) ELSE st
         IN  IF s1.ok THEN WriteBB(s1, data) ELSE s1

RECURSIVE ParseFrom(_, _, _)
ParseFrom(st, f, n) ==
    IF n > Len(f) \/ ~st.ok THEN st ELSE ParseFrom(LoopBody(st, f[n]), f, n + 1)

loadBBTXTFile(f) == ParseFrom(ParseStart, f, 1)


-----------------------------------------------------------------------------
(* Annotation files of the parser specification *)

Min(x, y) == IF x <= y THEN x ELSE y

RECURSIVE Concat(_)
Concat(ss) == IF ss = <<>> THEN <<>> ELSE Head(ss) \o Concat(Tail(ss))

\* A numeric field holding the whole number n.
Whole(n) == n * CoordDenom

\* Line j of the r-th group of a file: the boxes of a group differ from row to
\* row and lie off the integer grid.
GroupLine(name, r, j) ==
    Line(name, Whole((j % 3) + 1), Whole(1),
         Whole(j) + 1, Whole(r), Whole(j + 10) + 1, Whole(r + 8))

\* A group: len lines of one filename; "#" is one corrupted (6-field) line.
Group(d, r) ==
    IF d[1] = "#"
    THEN << [k \in 0..5 |-> IF k = 0 THEN "a" ELSE Whole(1)] >>
    ELSE [j \in 1..d[2] |-> GroupLine(d[1], r, j)]

GroupKinds ==
    {"a", "b"} \X {2, MAX_NUM_BBS_PER_IMAGE - 1, MAX_NUM_BBS_PER_IMAGE,
                   MAX_NUM_BBS_PER_IMAGE + 2}

\* A line that ends the parse: an image that is not on disk, a corrupted line.
BadKinds == {<<"zz", 1>>, <<"#", 1>>}

GroupSeqs(n) == UNION {[1..m -> GroupKinds] : m \in 0..n}

\* Up to MaxRuns groups; a line that ends the parse may close the file.
ParseFiles ==
    { Concat([r \in 1..Len(ds) |-> Group(ds[r], r)]) :
        ds \in GroupSeqs(MaxRuns)
               \cup {Append(gs, bad) : gs \in GroupSeqs(MaxRuns - 1), bad \in BadKinds} }

-----------------------------------------------------------------------------
(* Values of the variables a specification does not use *)

NoTransform == [branch |-> "none"]
NoStats == [calls |-> 0, reads |-> 0, wraps |-> 0, reshuffles |-> 0, readAt |-> -1]
NoCfg == [width |-> 1, height |-> 1, reference_size |-> 1, batch_size |-> 1,
          shuffle |-> FALSE]

-----------------------------------------------------------------------------
(* The parser specification: _loadBBTXTFile applied to a file *)

ParseInit ==
    /\ file \in ParseFiles
    /\ cfg = NoCfg
    /\ pc = "init"
    /\ images = <<>>
    /\ i_global = 0
    /\ writes = <<>>
    /\ parsed = <<>>
    /\ b = 0
    /\ transformed_label = NewBlob
    /\ tr = NoTransform
    /\ stats = NoStats
    /\ tpc = <<>>
    /\ tb = <<>>
    /\ epochReads = <<>>

LoadBBTXTFile ==
    /\ pc = "init"
    /\ LET st == loadBBTXTFile(file)
       IN  /\ images' = st.images
           /\ writes' = st.writes
           /\ parsed' = st.images
           /\ pc' = IF st.ok THEN "parsed" ELSE "failed"
    /\ UNCHANGED <<file, cfg, i_global, b, transformed_label, tr, stats,
                   tpc, tb, epochReads>>

ParseNext == LoadBBTXTFile

SpecParse == ParseInit /\ [][ParseNext]_vars

-----------------------------------------------------------------------------
(* What the file says, read off its lines *)

\* The lines that start a maximal run of one filename.
RunStarts(f) == {n \in 1..Len(f) : n = 1 \/ f[n][0] # f[n - 1][0]}

\* The start of the j-th run.
StartOf(f, j) ==
    CHOOSE s \in RunStarts(f) : Cardinality({t \in RunStarts(f) : t <= s}) = j

\* The length of the run that starts at line s.
RunLen(f, s) ==
    Cardinality({n \in s..Len(f) : \A m \in s..n : f[m][0] = f[s][0]})

\* The box a line describes.
BoxOf(data) ==
    Row(stof(data[1]), stof(data[3]), stof(data[4]), stof(data[5]), stof(data[6]))

\* The real box count of the j-th record: the lines of its run, at most 20.
RealBoxes(f, j) == Min(RunLen(f, StartOf(f, j)), MAX_NUM_BBS_PER_IMAGE)

\* The file without the lines past the 20th of their run.
Trimmed(f) ==
    LET start(n) == CHOOSE s \in RunStarts(f) :
                        s <= n /\ \A t \in RunStarts(f) : t <= n => t <= s
        keep == {n \in 1..Len(f) : n - start(n) < MAX_NUM_BBS_PER_IMAGE}
        nth(k) == CHOOSE n \in keep : Cardinality({m \in keep : m <= n}) = k
    IN  [k \in 1..Cardinality(keep) |-> f[nth(k)]]

RecordsMatchRuns ==
    /\ Len(images) = Cardinality(RunStarts(file))
    /\ \A j \in 1..Len(images) :
         LET s == StartOf(file, j)
         IN  /\ images[j].first = file[s][0]
             /\ \A r \in 0..(RealBoxes(file, j) - 1) :
                  images[j].second[r] = BoxOf(file[s + r])

\* C1 (as amended): parsing yields one record per maximal run of one filename,
\* in file order, each with the first min(run length, 20) boxes in line order;
\* the rows after index k (k the real box count) keep the zero fill of the new
\* blob, label 0: at most the one row at index k carries label -1.
C1_OneRecordPerRun ==
    pc = "parsed" =>
        /\ RecordsMatchRuns
        /\ \A j \in 1..Len(images) :
             \A r \in (RealBoxes(file, j) + 1)..(MAX_NUM_BBS_PER_IMAGE - 1) :
                images[j].second[r] = NewBlob[r]

\* C1 as stated: ... and every box row after the real boxes carries label -1.
C1_RemainderSentinelFilled ==
    pc = "parsed" =>
        /\ RecordsMatchRuns
        /\ \A j \in 1..Len(images) :
             \A r \in RealBoxes(file, j)..(MAX_NUM_BBS_PER_IMAGE - 1) :
                images[j].second[r][0] = MinusOne

\* A parsed file of three records whose first filename comes back as the third,
\* with a run above 20 lines and a run that leaves rows unused.
C1_Witness ==
    /\ pc = "parsed"
    /\ Len(images) = 3
    /\ images[1].first = images[3].first
    /\ \E s \in RunStarts(file) : RunLen(file, s) > MAX_NUM_BBS_PER_IMAGE
    /\ \E j \in 1..2 : RealBoxes(file, j) = 2 /\ images[j].second[2][0] = MinusOne

\* C2: after parsing, every record with k < 20 real boxes has label -1 at row
\* k, the last record of the file included, so that numBBs returns k.
C2_EveryRecordTerminated ==
    pc = "parsed" =>
        \A j \in 1..Len(images) :
            LET k == RealBoxes(file, j)
            IN  k < MAX_NUM_BBS_PER_IMAGE =>
                    /\ images[j].second[k][0] = MinusOne
                    /\ numBBs(images[j].second) = k

\* C6: a record whose run has more than 20 lines keeps its first 20 boxes; the
\* only writes into it are the 20 box writes of rows 0..19, once each (nothing
\* is overwritten, no sentinel, nothing past row 19); and the parse ends with
\* the records of the file that has the dropped lines removed.
C6_ExtraLinesDropped ==
    pc = "parsed" =>
        /\ \A j \in 1..Len(images) :
             RunLen(file, StartOf(file, j)) > MAX_NUM_BBS_PER_IMAGE =>
                /\ \A r \in 0..(MAX_NUM_BBS_PER_IMAGE - 1) :
                     images[j].second[r] = BoxOf(file[StartOf(file, j) + r])
                /\ SelectSeq(writes, LAMBDA w : w[1] = j) =
                     [r \in 1..MAX_NUM_BBS_PER_IMAGE |-> <<j, r - 1, "box">>]
        /\ images = loadBBTXTFile(Trimmed(file)).images

\* A parsed file in which a run of 22 lines is followed by another record.
C6_Witness ==
    /\ pc = "parsed"
    /\ Len(images) >= 2
    /\ RunLen(file, 1) = MAX_NUM_BBS_PER_IMAGE + 2
    /\ Len(Trimmed(file)) = Len(file) - 2
    /\ images[2].second[0] = BoxOf(file[MAX_NUM_BBS_PER_IMAGE + 3])


-----------------------------------------------------------------------------
(* _shuffleImages *)

Perms(n) == {p \in [1..n -> 1..n] : \A i, j \in 1..n : p[i] = p[j] => i = j}

\* The orders shuffle(begin, end, rng) can leave _images in.
Shuffles(imgs) ==
    {[k \in 1..Len(imgs) |-> imgs[p[k]]] : p \in Perms(Len(imgs))}

-----------------------------------------------------------------------------
(* _transformImage *)

\* int(double(dim) / reference_size * size) with the ratio inverted
CropSizeInverted(dim, reference_size, size) ==
    Trunc(Norm(reference_size * size[1], dim * size[2]))

\* const int crop = double(dim) / reference_size * size   (lines 280-281)
CropSize(dim, reference_size, size) ==
    Trunc(Norm(dim * size[1], reference_size * size[2]))

\* Lines 272-285: the selected box, the crop size, and the bounds handed to
\* uniform_int_distribution<> (ints: the Dtype arguments are truncated).
BoxCrop(labels, bb_id, c) ==
    LET bb_data == labels[bb_id]
        x == bb_data[1]
        y == bb_data[2]
        w == FSub(bb_data[3], bb_data[1])
        h == FSub(bb_data[4], bb_data[2])
        size == FMax(w, h)
        crop_width  == CropSize(c.width, c.reference_size, size)
        crop_height == CropSize(c.height, c.reference_size, size)
    IN  [x |-> x, y |-> y, w |-> w, h |-> h,
         crop_width |-> crop_width, crop_height |-> crop_height,
         lo_x |-> Trunc(FSub(FAdd(x, w), Frac(crop_width))),  hi_x |-> Trunc(x),
         lo_y |-> Trunc(FSub(FAdd(y, h), Frac(crop_height))), hi_y |-> Trunc(y)]

\* What uniform_int_distribution<>(lo, hi) can return, among hi and the
\* DrawSpan values from lo up.  With lo > hi (its precondition broken) the
\* range it computes wraps around: it returns lo, lo+1, ... up to INT_MAX and
\* INT_MIN ... up to hi.
Draws(lo, hi) ==
    IF lo <= hi
    THEN {v \in lo..hi : v < lo + DrawSpan \/ v = hi}
    ELSE (lo..(lo + DrawSpan - 1)) \cup {hi}

\* The padding with the guards left out: the overhang is taken as it comes.
BordersUnguarded(crop_x, crop_y, crop_width, crop_height, cols, rows) ==
    [left   |-> -crop_x,
     top    |-> -crop_y,
     right  |-> crop_x + crop_width - cols,
     bottom |-> crop_y + crop_height - rows]

\* Lines 290-294: how far the crop reaches past the image on each side.
Borders(crop_x, crop_y, crop_width, crop_height, cols, rows) ==
    [left   |-> IF crop_x < 0 THEN -crop_x ELSE 0,
     top    |-> IF crop_y < 0 THEN -crop_y ELSE 0,
     right  |-> IF crop_x + crop_width > cols THEN crop_x + crop_width - cols ELSE 0,
     bottom |-> IF crop_y + crop_height > rows THEN crop_y + crop_height - rows ELSE 0]

\* The update applied to the selected box only.
RemapSelectedOnly(labels, num_bbs, bb_id, crop_x, crop_y, x_scaling, y_scaling) ==
    [r \in DOMAIN labels |->
        IF r = bb_id
        THEN Row(labels[r][0],
                 FMul(FSub(labels[r][1], Frac(crop_x)), x_scaling),
                 FMul(FSub(labels[r][2], Frac(crop_y)), y_scaling),
                 FMul(FSub(labels[r][3], Frac(crop_x)), x_scaling),
                 FMul(FSub(labels[r][4], Frac(crop_y)), y_scaling))
        ELSE labels[r]]

\* Lines 310-326: every box below num_bbs is moved by the crop origin, then scaled.
Remap(labels, num_bbs, bb_id, crop_x, crop_y, x_scaling, y_scaling) ==
    [r \in DOMAIN labels |->
        IF r < num_bbs
        THEN Row(labels[r][0],
                 FMul(FSub(labels[r][1], Frac(crop_x)), x_scaling),
                 FMul(FSub(labels[r][2], Frac(crop_y)), y_scaling),
                 FMul(FSub(labels[r][3], Frac(crop_x)), x_scaling),
                 FMul(FSub(labels[r][4], Frac(crop_y)), y_scaling))
        ELSE labels[r]]

\* Lines 259-263: the first label is -1, the image is only resized.
transformImageNoBox(labels) ==
    [ok |-> TRUE, label |-> labels, tr |-> [branch |-> "nobox", src |-> labels]]

\* uniform_int_distribution<> asserts min <= max: a build that keeps the
\* assertion ends the process at line 284 or 285 when the crop is smaller than
\* the box.
transformImageAssert(labels) ==
    [ok |-> FALSE, label |-> labels, tr |-> [branch |-> "assert", src |-> labels]]

\* Lines 264-330 for the draws bb_id, crop_x, crop_y on a cols x rows image.
\* cv::resize throws on an empty crop (a crop size of 0), which ends the
\* process before the labels are touched.
transformImage(labels, cols, rows, c, bb_id, crop_x, crop_y) ==
    LET num_bbs == numBBs(labels)
        g == BoxCrop(labels, bb_id, c)
        bd == Borders(crop_x, crop_y, g.crop_width, g.crop_height, cols, rows)
        ok == g.crop_width > 0 /\ g.crop_height > 0
        x_scaling == IF ok THEN Norm(c.width, g.crop_width) ELSE Zero
        y_scaling == IF ok THEN Norm(c.height, g.crop_height) ELSE Zero
    IN  [ok    |-> ok,
         label |-> IF ok
                   THEN Remap(labels, num_bbs, bb_id, crop_x, crop_y, x_scaling, y_scaling)
                   ELSE labels,
         tr    |-> [branch |-> "box", src |-> labels, num_bbs |-> num_bbs,
                    bb_id |-> bb_id, cols |-> cols, rows |-> rows,
                    crop_x |-> crop_x, crop_y |-> crop_y,
                    crop_width |-> g.crop_width, crop_height |-> g.crop_height,
                    border |-> bd, x_scaling |-> x_scaling, y_scaling |-> y_scaling]]


-----------------------------------------------------------------------------
(* The layer: DataLayerSetUp, then load_batch on the one prefetch thread *)

\* A line with whole-number fields except xmax, which lies dx steps past xmax.
BBLine(name, label, xmin, ymin, xmax, dx, ymax) ==
    Line(name, Whole(label), Whole(1), Whole(xmin), Whole(ymin),
         Whole(xmax) + dx, Whole(ymax))

\* Two boxes of one image, then a one-box image that ends the file.
FileTwoImages ==
    << BBLine("a", 2, 20, 20, 60, 0, 60),
       BBLine("a", 3, 70, 30, 120, 1, 80),
       BBLine("b", 1, 5, 5, 15, 0, 15) >>

\* An image listed with label -1 (no boxes), a box off the integer grid, and a
\* small box below its image.
FileThreeImages ==
    << BBLine("a", -1, 0, 0, 0, 0, 0),
       BBLine("b", 1, 100, 10, 110, 1, 14),
       BBLine("c", 2, 0, 3, 4, 0, 7) >>

\* A file with a single line.
FileOneImage == << BBLine("a", 1, 20, 20, 60, 0, 60) >>

SetupFiles == {FileTwoImages, FileThreeImages, FileOneImage, <<>>}

\* width, height, reference_size of the network input
Shapes == {<<200, 200, 50>>, <<5, 4, 2>>, <<2, 2, 4>>}

Configs ==
    {[width |-> s[1], height |-> s[2], reference_size |-> s[3],
      batch_size |-> n, shuffle |-> sh] :
        s \in Shapes, n \in 1..MaxBatch, sh \in BOOLEAN}

\* cv::imread: the size of the image a filename holds.
imread(name) ==
    CASE name = "a" -> [cols |-> 100, rows |-> 80]
      [] name = "b" -> [cols |-> 16, rows |-> 16]
      [] OTHER      -> [cols |-> 3, rows |-> 2]

Init ==
    /\ file \in SetupFiles
    /\ cfg \in Configs
    /\ pc = "init"
    /\ images = <<>>
    /\ i_global = 0
    /\ writes = <<>>
    /\ parsed = <<>>
    /\ b = 0
    /\ transformed_label = NewBlob
    /\ tr = NoTransform
    /\ stats = NoStats
    /\ tpc = <<>>
    /\ tb = <<>>
    /\ epochReads = <<>>

\* Lines 83-93: parse, start at image 0, CHECK the set is not empty, shuffle.
DataLayerSetUp ==
    /\ pc = "init"
    /\ LET st == loadBBTXTFile(file)
       IN  /\ writes' = st.writes
           /\ parsed' = st.images
           /\ i_global' = 0
           /\ \/ /\ ~st.ok \/ st.images = <<>>
                 /\ images' = st.images
                 /\ pc' = "failed"
              \/ /\ st.ok /\ st.images # <<>>
                 /\ images' \in (IF cfg.shuffle THEN Shuffles(st.images) ELSE {st.images})
                 /\ pc' = "ready"
    /\ UNCHANGED <<file, cfg, b, transformed_label, tr, stats, tpc, tb, epochReads>>

\* The wrap test with > for >=
WrapsLate(i, n) == i > n

\* Line 158: the incremented index has reached the end of _images.
Wraps(i, n) == i >= n

\* _images as the transform leaves it when transformed_label_ shares the
\* record's data instead of holding a copy of it.
ImagesAfterAliased(imgs, i, out) ==
    IF i < Len(imgs) THEN [imgs EXCEPT ![i + 1].second = out] ELSE imgs

\* Lines 141-154: _images after the transform wrote `out` through
\* transformed_label_, which points into the batch and holds a caffe_copy of
\* the record's blob.
ImagesAfter(imgs, i, out) == imgs

\* _images[_i_global] (an index past the end reads no image of the set).
ImageAt(imgs, i) ==
    IF i < Len(imgs) THEN imgs[i + 1] ELSE [first |-> "", second |-> NewBlob]

\* Lines 156-163, after the transform gave `out`: the labels of slot b are in
\* the batch, the index moves on and, at the end of the set, the images are
\* shuffled (if enabled) and the index restarts.
Consume(out) ==
    LET kept == ImagesAfter(images, i_global, out.label)
        wrap == Wraps(i_global + 1, Len(images))
    IN  /\ transformed_label' = out.label
        /\ tr' = out.tr
        /\ b' = b + 1
        /\ i_global' = IF wrap THEN 0 ELSE i_global + 1
        /\ images' \in (IF wrap /\ cfg.shuffle THEN Shuffles(kept) ELSE {kept})
        /\ stats' = [stats EXCEPT !.reads = @ + 1,
                                  !.readAt = i_global,
                                  !.wraps = IF wrap THEN @ + 1 ELSE @,
                                  !.reshuffles = IF wrap /\ cfg.shuffle THEN @ + 1 ELSE @]
        /\ pc' = pc

\* A failed CHECK or a thrown cv::Exception ends the process inside the transform.
Abort(out) ==
    /\ transformed_label' = out.label
    /\ tr' = out.tr
    /\ stats' = [stats EXCEPT !.readAt = i_global]
    /\ pc' = "failed"
    /\ UNCHANGED <<b, i_global, images>>

\* load_batch is entered (the prefetch thread calls it again and again).
LoadBatchEnter ==
    /\ pc = "ready"
    /\ stats.calls < MaxCalls
    /\ pc' = "batch"
    /\ b' = 0
    /\ stats' = [stats EXCEPT !.calls = @ + 1]
    /\ UNCHANGED <<file, cfg, images, i_global, writes, parsed, transformed_label,
                   tr, tpc, tb, epochReads>>

\* One pass of the loop of lines 134-164.
LoadBatchImage ==
    /\ pc = "batch"
    /\ b < cfg.batch_size
    /\ LET rec == ImageAt(images, i_global)
           labels == rec.second
           img == imread(rec.first)
       IN  \/ /\ labels[0][0] = MinusOne
              /\ Consume(transformImageNoBox(labels))
           \/ /\ labels[0][0] # MinusOne
              /\ \E bb_id \in 0..(numBBs(labels) - 1) :
                   LET g == BoxCrop(labels, bb_id, cfg)
                   IN  \/ \E crop_x \in Draws(g.lo_x, g.hi_x), crop_y \in Draws(g.lo_y, g.hi_y) :
                            LET out == transformImage(labels, img.cols, img.rows, cfg,
                                                      bb_id, crop_x, crop_y)
                            IN  IF out.ok THEN Consume(out) ELSE Abort(out)
                       \/ /\ g.lo_x > g.hi_x \/ g.lo_y > g.hi_y
                          /\ Abort(transformImageAssert(labels))
    /\ UNCHANGED <<file, cfg, writes, parsed, tpc, tb, epochReads>>

\* The loop ends: load_batch returns.
LoadBatchReturn ==
    /\ pc = "batch"
    /\ b >= cfg.batch_size
    /\ pc' = "ready"
    /\ UNCHANGED <<file, cfg, images, i_global, writes, parsed, b, transformed_label,
                   tr, stats, tpc, tb, epochReads>>

Next ==
    \/ DataLayerSetUp
    \/ LoadBatchEnter
    \/ LoadBatchImage
    \/ LoadBatchReturn

Spec == Init /\ [][Next]_vars


-----------------------------------------------------------------------------
(* Claims about the transform and the batch loop *)

\* The last transform took the box branch and went through.
BoxDone == tr.branch = "box" /\ tr.crop_width > 0 /\ tr.crop_height > 0

\* The box the last transform selected, as copied from the record.
Selected == tr.src[tr.bb_id]

\* The multiset of the records of a sequence: how often each one occurs.
Count(imgs, rec) == Cardinality({k \in 1..Len(imgs) : imgs[k] = rec})

\* C3: in every box-branch crop the selected box lies inside the crop window
\* before remapping: cropX <= xmin, cropY <= ymin, xmax <= cropX + cropW and
\* ymax <= cropY + cropH.
C3_BoxInsideCrop ==
    BoxDone =>
        /\ FLe(Frac(tr.crop_x), Selected[1])
        /\ FLe(Frac(tr.crop_y), Selected[2])
        /\ FLe(Selected[3], Frac(tr.crop_x + tr.crop_width))
        /\ FLe(Selected[4], Frac(tr.crop_y + tr.crop_height))

\* C4: the cursor moves by one per image read and is below the number of
\* images at every read; it restarts at 0 exactly when it reaches the number
\* of images; the reshuffles are as many as the wraps with shuffling on, and
\* none with shuffling off.
C4_CursorWraps ==
    pc \in {"ready", "batch"} =>
        LET n == Len(images)
        IN  /\ 0 <= i_global /\ i_global < n
            /\ i_global = stats.reads % n
            /\ stats.wraps = stats.reads \div n
            /\ stats.reads > 0 => stats.readAt = (stats.reads - 1) % n
            /\ stats.reshuffles = IF cfg.shuffle THEN stats.wraps ELSE 0

\* A batch larger than the image set has wrapped twice and reshuffled twice.
C4_Witness ==
    /\ pc = "batch"
    /\ cfg.shuffle
    /\ cfg.batch_size > Len(images)
    /\ stats.wraps = 2
    /\ stats.reshuffles = 2
    /\ i_global = 0
    /\ stats.readAt = Len(images) - 1

\* C5: after setup the image set only changes its order: whatever was
\* shuffled and transformed, it holds the records of the parse, each as often,
\* with the box lists the parse gave them.
C5_OnlyReordered ==
    pc \in {"ready", "batch", "failed"} =>
        /\ Len(images) = Len(parsed)
        /\ \A k \in 1..Len(parsed) : Count(images, parsed[k]) = Count(parsed, parsed[k])

\* The set was reshuffled into another order and the labels of the batch slot
\* were remapped away from those of the record they were copied from.
C5_Witness ==
    /\ pc = "batch"
    /\ stats.reshuffles > 0
    /\ images # parsed
    /\ BoxDone
    /\ transformed_label # tr.src
    /\ \E k \in 1..Len(images) : images[k].second = tr.src

\* The case of C7: reference size 50, a 200 x 200 input, a selected box of 40 x 40.
C7_Case ==
    /\ BoxDone
    /\ cfg.width = 200 /\ cfg.height = 200 /\ cfg.reference_size = 50
    /\ FSub(Selected[3], Selected[1]) = Frac(40)
    /\ FSub(Selected[4], Selected[2]) = Frac(40)

\* Every real box of the slot is the record's box moved by the crop origin and
\* scaled by `scale` on both axes.
C7_Remapped(scale) ==
    \A r \in 0..(tr.num_bbs - 1) :
        /\ transformed_label[r][1] = FMul(FSub(tr.src[r][1], Frac(tr.crop_x)), scale)
        /\ transformed_label[r][2] = FMul(FSub(tr.src[r][2], Frac(tr.crop_y)), scale)
        /\ transformed_label[r][3] = FMul(FSub(tr.src[r][3], Frac(tr.crop_x)), scale)
        /\ transformed_label[r][4] = FMul(FSub(tr.src[r][4], Frac(tr.crop_y)), scale)

\* C7 (as amended): with reference size 50, a selected box of 40 x 40 and a
\* 200 x 200 input the crop is 160 x 160 (200 / 50 * 40), the scale factor is
\* 200 / 160 = 1.25 on both axes, and every real box is moved by
\* (-cropX, -cropY) and then scaled by 1.25.
C7_Crop160Scale125 ==
    C7_Case =>
        /\ tr.crop_width = 160 /\ tr.crop_height = 160
        /\ tr.x_scaling = Norm(5, 4) /\ tr.y_scaling = Norm(5, 4)
        /\ C7_Remapped(Norm(5, 4))

\* C7 as stated: the crop is 200 x 200, the scale factor is exactly 1.0 and the
\* boxes are only moved by (-cropX, -cropY).
C7_Crop200Scale1 ==
    C7_Case =>
        /\ tr.crop_width = 200 /\ tr.crop_height = 200
        /\ tr.x_scaling = Frac(1) /\ tr.y_scaling = Frac(1)
        /\ C7_Remapped(Frac(1))

\* The case of C7 with a record of two boxes, the 40 x 40 one selected.
C7_Witness ==
    /\ C7_Case
    /\ tr.num_bbs = 2
    /\ tr.bb_id = 0
    /\ transformed_label[1][1] = FMul(FSub(Frac(70), Frac(tr.crop_x)), Norm(5, 4))

\* C9: for a crop of positive size the borders are >= 0, the crop rectangle at
\* the adjusted origin lies inside the padded image, and a side is padded
\* only where the crop window reaches past the image.
C9_CropInsidePadded ==
    BoxDone =>
        LET bd == tr.border
            x0 == tr.crop_x + bd.left
            y0 == tr.crop_y + bd.top
        IN  /\ bd.left >= 0 /\ bd.right >= 0 /\ bd.top >= 0 /\ bd.bottom >= 0
            /\ 0 <= x0 /\ x0 + tr.crop_width <= tr.cols + bd.left + bd.right
            /\ 0 <= y0 /\ y0 + tr.crop_height <= tr.rows + bd.top + bd.bottom
            /\ bd.left > 0 => tr.crop_x < 0
            /\ bd.top > 0 => tr.crop_y < 0
            /\ bd.right > 0 => tr.crop_x + tr.crop_width > tr.cols
            /\ bd.bottom > 0 => tr.crop_y + tr.crop_height > tr.rows

\* A crop with a negative origin on x that is padded left and right, and whose
\* origin on y lies past the bottom of the image.
C9_Witness ==
    /\ BoxDone
    /\ tr.crop_x < 0 /\ tr.border.left > 0 /\ tr.border.right > 0
    /\ tr.crop_y >= tr.rows /\ tr.border.top = 0 /\ tr.border.bottom > 0

\* C10: in the box branch every box below the first sentinel (numBBs) has the
\* crop origin subtracted and is then scaled by width / cropW on x and
\* height / cropH on y, unclamped; the labels, the sentinel row and the rows
\* after it are as in the record; in the no-box branch the whole block is.
C10_AllBoxesRemapped ==
    /\ tr.branch = "nobox" => transformed_label = tr.src
    /\ BoxDone =>
         LET sx == Norm(cfg.width, tr.crop_width)
             sy == Norm(cfg.height, tr.crop_height)
         IN  /\ tr.num_bbs = numBBs(tr.src)
             /\ \A r \in 0..(MAX_NUM_BBS_PER_IMAGE - 1) :
                  IF r < tr.num_bbs
                  THEN /\ transformed_label[r][0] = tr.src[r][0]
                       /\ transformed_label[r][1] = FMul(FSub(tr.src[r][1], Frac(tr.crop_x)), sx)
                       /\ transformed_label[r][2] = FMul(FSub(tr.src[r][2], Frac(tr.crop_y)), sy)
                       /\ transformed_label[r][3] = FMul(FSub(tr.src[r][3], Frac(tr.crop_x)), sx)
                       /\ transformed_label[r][4] = FMul(FSub(tr.src[r][4], Frac(tr.crop_y)), sy)
                  ELSE transformed_label[r] = tr.src[r]

\* Two boxes before a sentinel, the second one selected, both remapped, one of
\* them to a negative coordinate, with different scales on x and y.
C10_Witness ==
    /\ BoxDone
    /\ tr.num_bbs = 2
    /\ tr.bb_id = 1
    /\ transformed_label[2] = tr.src[2]
    /\ transformed_label[2][0] = MinusOne
    /\ transformed_label[0] # tr.src[0]
    /\ transformed_label[0][1][1] < 0
    /\ tr.x_scaling # tr.y_scaling


-----------------------------------------------------------------------------
(* Several producers in load_batch on one layer.  The source takes no lock in *)
(* load_batch; the pool of producer threads is that of the design's          *)
(* scheduling model.  Each producer runs the statements of the loop that     *)
(* touch _images and _i_global, one statement per step.                      *)

Producers == 1..NProducers

ProducersInit ==
    /\ file \in SetupFiles \ {<<>>}
    /\ cfg \in {c \in Configs : c.width = 200}
    /\ pc = "producers"
    /\ parsed = loadBBTXTFile(file).images
    /\ writes = loadBBTXTFile(file).writes
    /\ images \in (IF cfg.shuffle THEN Shuffles(parsed) ELSE {parsed})
    /\ i_global = 0
    /\ b = 0
    /\ transformed_label = NewBlob
    /\ tr = NoTransform
    /\ stats = NoStats
    /\ tpc = [t \in Producers |-> "idle"]
    /\ tb = [t \in Producers |-> 0]
    /\ epochReads = <<>>

\* A producer enters load_batch.
PEnter(t) ==
    /\ pc = "producers"
    /\ tpc[t] = "idle"
    /\ stats.calls < MaxCalls
    /\ stats' = [stats EXCEPT !.calls = @ + 1]
    /\ tpc' = [tpc EXCEPT ![t] = IF cfg.batch_size > 0 THEN "read" ELSE "idle"]
    /\ tb' = [tb EXCEPT ![t] = 0]
    /\ UNCHANGED <<file, cfg, pc, images, i_global, writes, parsed, b,
                   transformed_label, tr, epochReads>>

\* Lines 137-154: the image and its labels are read at _images[_i_global].
\* A read past the end of the vector is undefined: the producer goes on with
\* what it got, or the process dies.
PRead(t) ==
    /\ pc = "producers"
    /\ tpc[t] = "read"
    /\ epochReads' = Append(epochReads, i_global)
    /\ stats' = [stats EXCEPT !.reads = @ + 1, !.readAt = i_global]
    /\ \/ /\ tpc' = [tpc EXCEPT ![t] = "inc"]
          /\ pc' = pc
       \/ /\ i_global >= Len(images)
          /\ tpc' = tpc
          /\ pc' = "failed"
    /\ UNCHANGED <<file, cfg, images, i_global, writes, parsed, b,
                   transformed_label, tr, tb>>

\* Line 157: _i_global++
PIncrement(t) ==
    /\ pc = "producers"
    /\ tpc[t] = "inc"
    /\ i_global' = i_global + 1
    /\ tpc' = [tpc EXCEPT ![t] = "test"]
    /\ UNCHANGED <<file, cfg, pc, images, writes, parsed, b, transformed_label,
                   tr, stats, tb, epochReads>>

\* The end of a pass of the loop: ++b, and the loop test.
PLoop(t) ==
    /\ tb' = [tb EXCEPT ![t] = @ + 1]
    /\ tpc' = [tpc EXCEPT ![t] = IF tb[t] + 1 < cfg.batch_size THEN "read" ELSE "idle"]

\* Line 158: if (_i_global >= _images.size())
PTest(t) ==
    /\ pc = "producers"
    /\ tpc[t] = "test"
    /\ IF Wraps(i_global, Len(images))
       THEN tpc' = [tpc EXCEPT ![t] = "shuffle"] /\ tb' = tb
       ELSE PLoop(t)
    /\ UNCHANGED <<file, cfg, pc, images, i_global, writes, parsed, b,
                   transformed_label, tr, stats, epochReads>>

\* Line 161: if (shuffle) _shuffleImages()
PShuffle(t) ==
    /\ pc = "producers"
    /\ tpc[t] = "shuffle"
    /\ images' \in (IF cfg.shuffle THEN Shuffles(images) ELSE {images})
    /\ stats' = [stats EXCEPT !.reshuffles = IF cfg.shuffle THEN @ + 1 ELSE @]
    /\ tpc' = [tpc EXCEPT ![t] = "reset"]
    /\ UNCHANGED <<file, cfg, pc, i_global, writes, parsed, b, transformed_label,
                   tr, tb, epochReads>>

\* Line 162: _i_global = 0
PReset(t) ==
    /\ pc = "producers"
    /\ tpc[t] = "reset"
    /\ i_global' = 0
    /\ epochReads' = <<>>
    /\ stats' = [stats EXCEPT !.wraps = @ + 1]
    /\ PLoop(t)
    /\ UNCHANGED <<file, cfg, pc, images, writes, parsed, b, transformed_label, tr>>

ProducersNext ==
    \E t \in Producers :
        \/ PEnter(t)
        \/ PRead(t)
        \/ PIncrement(t)
        \/ PTest(t)
        \/ PShuffle(t)
        \/ PReset(t)

SpecProducers == ProducersInit /\ [][ProducersNext]_vars

\* C8: with several producers in load_batch the read at the cursor, the
\* increment, the wrap test, the reshuffle and the reset of one producer are
\* never interleaved with those of another: at most one producer is between
\* its read and the end of its cursor update, every read finds the cursor
\* below the number of images, and the positions read in one epoch are
\* 0, 1, 2, ... with none read twice and none skipped.
C8_CursorSingleWriter ==
    pc \in {"producers", "failed"} /\ tpc # <<>> =>
        /\ Cardinality({t \in Producers :
                          tpc[t] \in {"inc", "test", "shuffle", "reset"}}) <= 1
        /\ \A k \in 1..Len(epochReads) :
             /\ epochReads[k] < Len(images)
             /\ epochReads[k] = k - 1

=============================================================================
